---------------------------- MODULE Spec2Model ----------------------------
(***************************************************************************)
(* Air drums: colour markers seen by a camera are tracked frame by frame,  *)
(* and a marker entering the circular zone of a percussion plays it.       *)
(*                                                                         *)
(* Values.  A Python None is the empty tuple <<>>: a position is <<>> or   *)
(* <<x, y>>, a velocity is <<>> or <<num2, den>>, which stands for the     *)
(* number sqrt(num2) / den (np.linalg.norm(...) / timestamps_diff, kept    *)
(* exact), and an optional timestamp argument is <<>> or <<t>>.            *)
(***************************************************************************)
EXTENDS Integers, Sequences, FiniteSets, TLC

VARIABLES
    controllers,        \* keys of DrumSet.controllers (settings 'controllers')
    name,               \* Controller.name of each key
    percussion,         \* DrumSet.percussion (settings 'percussion')
    deque_max_length,   \* Interface.__init__: maxlen of both frame queues
    velocity_max_volume,  \* Controller.velocity_max_volume of each key
    positions_in_time,  \* Controller.positions_in_time
    position,           \* Controller.position
    velocity,           \* Controller.velocity
    currently_playing_controllers,  \* Percussion.currently_playing_controllers
    played,             \* per frame evaluated by DrumSet.play: the <<key, percussion>> played
    sound,              \* Percussion.sound
    sound_with_volume,  \* Percussion.sound_with_volume
    sounded,            \* every call of Percussion.play, in order: who, with what, what was played
    observed,           \* per controller: samples with a position appended so far
    frames_to_track,    \* Interface.frames_to_track (queue A)
    frames_tracked,     \* Interface.frames_tracked (queue B)
    stream_enabled,     \* InputVideoStream.stream_enabled
    tracker_enabled,    \* Tracker.tracker_enabled
    output_enabled,     \* OutputVideoStream.stream_enabled
    frame_count,        \* InputVideoStream.frame_count
    clock,              \* the next reading of time.time()
    pcIn,               \* where InputVideoStream.start_stream is
    pcTr,               \* where Tracker.start_tracker is
    pcOut,              \* where OutputVideoStream.start_stream is
    frame_read,         \* the frame InputVideoStream.read_frame built last
    frame_to_track,     \* local frame_to_track of Tracker.start_tracker
    head_checked,       \* number of queue A's head frame when the Tracker's check found it non-empty, 0 after the pop
    frame_out,          \* local frame of OutputVideoStream.start_stream
    circles,            \* the centers the last _render_frame passed to cv2.circle for the controllers, in order
    pushed,             \* per queue: frame_count of every frame appended, in order
    popped,             \* per queue: frame_count of every frame popped, in order
    evicted,            \* per queue: frame_count of each head met by an append on a full queue
    overflows,          \* per queue: appends made on a full queue
    run,                \* per queue: appends made since its last pop
    pcMain,             \* where Interface.start_interface is
    hsv_self,           \* left operand of HSV.__add__ / HSV.__sub__
    hsv_other,          \* right operand of HSV.__add__ / HSV.__sub__
    hsv_sum,            \* what hsv_self + hsv_other returned, once computed
    hsv_difference,     \* what hsv_self - hsv_other returned, once computed
    scene,              \* SpecHistory: which scene the camera looks at
    frames_seen         \* SpecHistory: every frame tracked, in order

cfgVars   == <<controllers, name, percussion, deque_max_length, velocity_max_volume>>
ctlVars   == <<positions_in_time, position, velocity, observed>>
percVars  == <<currently_playing_controllers, played, sound, sound_with_volume, sounded>>
queueVars == <<frames_to_track, frames_tracked>>
flagVars  == <<stream_enabled, tracker_enabled, output_enabled>>
inVars    == <<pcIn, frame_read, frame_count, clock>>
trVars    == <<pcTr, frame_to_track, head_checked>>
outVars   == <<pcOut, frame_out, circles>>
logVars   == <<pushed, popped, evicted, overflows, run>>
pipeVars  == <<queueVars, flagVars, inVars, trVars, outVars, logVars>>
auxVars   == <<pcMain, hsv_self, hsv_other, hsv_sum, hsv_difference, scene, frames_seen>>
vars      == <<cfgVars, ctlVars, percVars, pipeVars, auxVars>>

---------------------------------------------------------------------------
\* Bounds of the model.

\* Position samples (frames times controllers) tracked in SpecTracking.
MaxSamples == 5
\* Observations made in SpecMotion.
MaxObs == 3
\* Largest timestamp / clock reading.
MaxTime == 2
\* Frames the Acquisition Stage reads in Spec.
MaxFrames == 3
\* Largest capacity of the frame queues in Spec.
MaxCap == 2
\* Frames tracked in SpecHistory: more than a position history holds.
MaxRun == 52

---------------------------------------------------------------------------
\* Configuration: the settings file's controllers and percussion.

Keys == {"left", "right"}
\* Order of DrumSet.controllers (the order of the settings' items).
ControllerOrder == <<"left", "right">>
Names == {"Stick", "Foot"}

PercussionNames == {"drum", "cymbal"}
PercussionOrder == <<"drum", "cymbal">>
center_position(p) == IF p = "drum" THEN <<5, 5>> ELSE <<0, 0>>
radius(p) == IF p = "drum" THEN 3 ELSE 5

None == <<>>

\* The settings' 'velocity_max_volume' of each controller, on the scale of the
\* positions below: the velocity from <<0, 0>> to <<3, 4>> in one time unit is 5.
VelocityMaxVolume(c) == IF c = "left" THEN 5 ELSE 10

\* Positions a segmentation can yield; <<3, 4>> lies on the cymbal's rim.
Positions == {None, <<0, 0>>, <<3, 4>>, <<5, 5>>, <<20, 20>>}
\* An image is known by what segmentation finds in it for each controller.
Images == [Keys -> Positions]

Controller_DEQUE_MAX_LENGTH == 50

---------------------------------------------------------------------------
\* Mutant: a deque that never evicts.
DequeAppend_Unbounded(q, x, maxlen) == Append(q, x)

\* Mutant: a full deque refuses the new element.
DequeAppend_RejectWhenFull(q, x, maxlen) ==
    IF Len(q) >= maxlen THEN q ELSE Append(q, x)

\* Mutant: a full deque gives up its newest element instead of its oldest.
DequeAppend_EvictNewest(q, x, maxlen) ==
    IF maxlen = 0 THEN <<>>
    ELSE IF Len(q) >= maxlen THEN Append(SubSeq(q, 1, Len(q) - 1), x)
    ELSE Append(q, x)

\* Mutant: an append on a full deque empties it.
DequeAppend_ClearsWhenFull(q, x, maxlen) ==
    IF Len(q) >= maxlen THEN <<>> ELSE Append(q, x)

\* collections.deque(maxlen=n).append(x)
DequeAppend(q, x, maxlen) ==
    IF maxlen = 0 THEN <<>>
    ELSE IF Len(q) >= maxlen THEN Append(Tail(q), x)
    ELSE Append(q, x)

\* Frame.__init__; now is the reading of time.time().
Frame(grabbed, image, count, timestamp, now) ==
    [grabbed     |-> grabbed,
     image       |-> image,
     frame_count |-> count,
     timestamp   |-> IF timestamp = None \/ timestamp = <<0>> THEN now
                     ELSE timestamp[1]]

\* Controller.get_largest_contour_center(controller.get_controller_mask(frame))
Segment(c, frame) == frame.image[c]

PositionInTime(pos, timestamp) == [position |-> pos, timestamp |-> timestamp]

\* Squared np.linalg.norm(np.asarray(a) - np.asarray(b))
Norm2(a, b) == (a[1] - b[1]) * (a[1] - b[1]) + (a[2] - b[2]) * (a[2] - b[2])

\* Mutant: a frame without detection resets the position.
RefreshMotionAttributes_ResetOnMiss(pit, pos, vel) ==
    LET n == Len(pit)
    IN  [position |-> IF n > 0 THEN pit[n].position ELSE pos,
         velocity |->
            IF n > 1 /\ pit[n].position # None /\ pit[n - 1].position # None
                     /\ pit[n].timestamp - pit[n - 1].timestamp > 0
            THEN <<Norm2(pit[n].position, pit[n - 1].position),
                   pit[n].timestamp - pit[n - 1].timestamp>>
            ELSE vel]

\* Mutant: the distance of the last two positions taken as the velocity.
RefreshMotionAttributes_NoTimeDivision(pit, pos, vel) ==
    LET n == Len(pit)
    IN  [position |-> IF n > 0 /\ pit[n].position # None THEN pit[n].position ELSE pos,
         velocity |->
            IF n > 1 /\ pit[n].position # None /\ pit[n - 1].position # None
                     /\ pit[n].timestamp - pit[n - 1].timestamp > 0
            THEN <<Norm2(pit[n].position, pit[n - 1].position), 1>>
            ELSE vel]

\* Mutant: the velocity recomputed whatever the sign of the time difference.
RefreshMotionAttributes_NoTimeGuard(pit, pos, vel) ==
    LET n == Len(pit)
    IN  [position |-> IF n > 0 /\ pit[n].position # None THEN pit[n].position ELSE pos,
         velocity |->
            IF n > 1 /\ pit[n].position # None /\ pit[n - 1].position # None
            THEN <<Norm2(pit[n].position, pit[n - 1].position),
                   pit[n].timestamp - pit[n - 1].timestamp>>
            ELSE vel]

\* Mutant: a missing previous position read as the origin.
RefreshMotionAttributes_MissingAsOrigin(pit, pos, vel) ==
    LET n == Len(pit)
        prev == IF pit[n - 1].position = None THEN <<0, 0>> ELSE pit[n - 1].position
    IN  [position |-> IF n > 0 /\ pit[n].position # None THEN pit[n].position ELSE pos,
         velocity |->
            IF n > 1 /\ pit[n].position # None
                     /\ pit[n].timestamp - pit[n - 1].timestamp > 0
            THEN <<Norm2(pit[n].position, prev),
                   pit[n].timestamp - pit[n - 1].timestamp>>
            ELSE vel]

\* Mutant: the velocity is taken over the samples in which the controller was
\* not found, from the newest sample and the last one before it with a position.
RefreshMotionAttributes_SkipsMisses(pit, pos, vel) ==
    LET n == Len(pit)
        found == {m \in 1..(n - 1) : pit[m].position # <<>>}
        last == CHOOSE m \in found : \A k \in found : k <= m
    IN  [position |-> IF n > 0 /\ pit[n].position # <<>> THEN pit[n].position ELSE pos,
         velocity |->
            IF n > 1 /\ pit[n].position # <<>> /\ found # {}
            THEN IF pit[n].timestamp - pit[last].timestamp > 0
                 THEN <<(pit[n].position[1] - pit[last].position[1])
                            * (pit[n].position[1] - pit[last].position[1])
                        + (pit[n].position[2] - pit[last].position[2])
                            * (pit[n].position[2] - pit[last].position[2]),
                        pit[n].timestamp - pit[last].timestamp>>
                 ELSE vel
            ELSE vel]

\* Controller.refresh_motion_attributes, as the new [position, velocity]
RefreshMotionAttributes(pit, pos, vel) ==
    LET n == Len(pit)
        newPos == IF n > 0 /\ pit[n].position # None THEN pit[n].position ELSE pos
        newVel ==
            IF n > 1 /\ pit[n].position # None /\ pit[n - 1].position # None
            THEN LET timestamps_diff == pit[n].timestamp - pit[n - 1].timestamp
                     positions_diff2 == Norm2(pit[n].position, pit[n - 1].position)
                 IN  IF timestamps_diff > 0
                     THEN <<positions_diff2, timestamps_diff>>
                     ELSE vel
            ELSE vel
    IN  [position |-> newPos, velocity |-> newVel]

\* The body of the loop of Tracker.track_controllers_in_frame for controller c
\* whose segmentation yields pos in a frame stamped timestamp.
ObserveController(c, pos, timestamp) ==
    LET pit == DequeAppend(positions_in_time[c], PositionInTime(pos, timestamp),
                           Controller_DEQUE_MAX_LENGTH)
        m   == RefreshMotionAttributes(pit, position[c], velocity[c])
    IN  /\ positions_in_time' = [positions_in_time EXCEPT ![c] = pit]
        /\ position' = [position EXCEPT ![c] = m.position]
        /\ velocity' = [velocity EXCEPT ![c] = m.velocity]
        /\ observed' = [observed EXCEPT ![c] = IF pos # None THEN @ + 1 ELSE @]

\* Mutant: a frame in which a controller is not found adds no sample for it.
TrackControllersInFrame_SkipsMissing(frame) ==
    LET pit(c) == IF frame.image[c] = <<>> THEN positions_in_time[c]
                  ELSE DequeAppend(positions_in_time[c],
                                   PositionInTime(frame.image[c], frame.timestamp),
                                   Controller_DEQUE_MAX_LENGTH)
        m(c)   == RefreshMotionAttributes(pit(c), position[c], velocity[c])
    IN  /\ positions_in_time' =
               [c \in Keys |-> IF c \in controllers THEN pit(c) ELSE positions_in_time[c]]
        /\ position' =
               [c \in Keys |-> IF c \in controllers THEN m(c).position ELSE position[c]]
        /\ velocity' =
               [c \in Keys |-> IF c \in controllers THEN m(c).velocity ELSE velocity[c]]
        /\ observed' =
               [c \in Keys |-> IF c \in controllers /\ Segment(c, frame) # None
                               THEN observed[c] + 1 ELSE observed[c]]

\* Tracker.track_controllers_in_frame
TrackControllersInFrame(frame) ==
    LET pit(c) == DequeAppend(positions_in_time[c],
                              PositionInTime(Segment(c, frame), frame.timestamp),
                              Controller_DEQUE_MAX_LENGTH)
        m(c)   == RefreshMotionAttributes(pit(c), position[c], velocity[c])
    IN  /\ positions_in_time' =
               [c \in Keys |-> IF c \in controllers THEN pit(c) ELSE positions_in_time[c]]
        /\ position' =
               [c \in Keys |-> IF c \in controllers THEN m(c).position ELSE position[c]]
        /\ velocity' =
               [c \in Keys |-> IF c \in controllers THEN m(c).velocity ELSE velocity[c]]
        /\ observed' =
               [c \in Keys |-> IF c \in controllers /\ Segment(c, frame) # None
                               THEN observed[c] + 1 ELSE observed[c]]

\* Mutant: the squared distance compared with the radius squared twice.
InRadius_SquaredTwice(p, pos) ==
    Norm2(center_position(p), pos) < radius(p) * radius(p) * radius(p) * radius(p)

\* The zone test of Percussion.is_played: norm(center - position) < radius
InRadius(p, pos) == Norm2(center_position(p), pos) < radius(p) * radius(p)

\* The member of currently_playing_controllers that stands for a controller.
PlayingMember(c) == name[c]

\* Mutant: a controller that leaves the zone stays a member.
IsPlayed_NoRearm(p, cpc, c, pos) ==
    IF pos = None THEN [hit |-> FALSE, cpc |-> cpc]
    ELSE IF Norm2(center_position(p), pos) < radius(p) * radius(p)
              /\ name[c] \notin cpc
         THEN [hit |-> TRUE, cpc |-> cpc \cup {name[c]}]
         ELSE [hit |-> FALSE, cpc |-> cpc]

\* Percussion.is_played for percussion p with member set cpc and a controller
\* at pos: the value returned and the new member set.
IsPlayed(p, cpc, c, pos) ==
    IF pos = None THEN [hit |-> FALSE, cpc |-> cpc]
    ELSE IF InRadius(p, pos)
         THEN IF PlayingMember(c) \notin cpc
              THEN [hit |-> TRUE, cpc |-> cpc \cup {PlayingMember(c)}]
              ELSE [hit |-> FALSE, cpc |-> cpc]
         ELSE IF PlayingMember(c) \in cpc
              THEN [hit |-> FALSE, cpc |-> cpc \ {PlayingMember(c)}]
              ELSE [hit |-> FALSE, cpc |-> cpc]

\* The (controller, percussion) pairs in the order of the loops of DrumSet.play
SelectSeq2(s, S) == SelectSeq(s, LAMBDA x : x \in S)
PlayPairs ==
    LET cs == SelectSeq2(ControllerOrder, controllers)
        ps == SelectSeq2(PercussionOrder, percussion)
    IN  [i \in 1..(Len(cs) * Len(ps)) |->
            <<cs[((i - 1) \div Len(ps)) + 1], ps[((i - 1) % Len(ps)) + 1]>>]

\* A volume is <<a, b>> with b > 0, which stands for the number
\* log2(1 + sqrt(a) / b), kept exact.  log2 is increasing, log2(1) = 0 and
\* log2(2) = 1, so the comparisons of a volume with 0 and with 1 are decided
\* by a and b.
\* np.log2(1 + controller.velocity / controller.velocity_max_volume)
Log2OnePlusRatio(vel, vmax) == <<vel[1], vel[2] * vmax>>

\* volume < 0 and volume > 1 in Percussion.set_volume
VolumeBelowZero(volume) == volume[1] > 0 /\ volume[2] < 0
VolumeAboveOne(volume) == volume[2] > 0 /\ volume[1] > volume[2] * volume[2]

\* The literals 0 and 1 that Percussion.set_volume assigns to volume.
VolumeZero == <<0, 1>>
VolumeOne == <<1, 1>>

\* Mutant: the volume is not limited from above.
ClampVolume_NoUpperLimit(volume) ==
    IF volume[1] > 0 /\ volume[2] < 0 THEN <<0, 1>> ELSE volume

\* The two ifs at the head of Percussion.set_volume
ClampVolume(volume) ==
    IF VolumeBelowZero(volume) THEN VolumeZero
    ELSE IF VolumeAboveOne(volume) THEN VolumeOne
    ELSE volume

\* sa.WaveObject.from_wave_file(sound_path) of percussion p.  A wave object is
\* known by the file its samples were read from and the volumes its samples
\* were scaled by since, oldest first: scaling by a volume v multiplies every
\* sample by v * 32767 / max|sample| and truncates to int16.
WaveFile(p) == [wave_file |-> p, volumes |-> <<>>]

\* Percussion.set_volume: a new wave object made from the samples of
\* wave_object; wave_object itself is left as it is.
SetVolume(wave_object, volume) ==
    [wave_object EXCEPT !.volumes = Append(@, ClampVolume(volume))]

\* Mutant: the hit is scaled from the waveform played last.
PercussionPlay_FromLastPlayed(snd, sww, vel, vmax) ==
    [sound |-> snd,
     sound_with_volume |->
         IF vel # <<>> THEN SetVolume(sww, <<vel[1], vel[2] * vmax>>) ELSE sww]

\* Percussion.play for a percussion with sound snd and sound_with_volume sww,
\* hit by a controller with velocity vel and velocity_max_volume vmax: the two
\* attributes afterwards; the new sound_with_volume is what is played.
PercussionPlay(snd, sww, vel, vmax) ==
    [sound |-> snd,
     sound_with_volume |->
         IF vel # None THEN SetVolume(snd, Log2OnePlusRatio(vel, vmax)) ELSE sww]

\* DrumSet.play from pair i on, with the controllers at positions pos:
\* the final member sets and the pairs whose percussion.play was called.
RECURSIVE PlayFrom(_, _, _, _)
PlayFrom(i, cpcs, hits, pos) ==
    IF i > Len(PlayPairs) THEN [cpcs |-> cpcs, hits |-> hits]
    ELSE LET c == PlayPairs[i][1]
             p == PlayPairs[i][2]
             r == IsPlayed(p, cpcs[p], c, pos[c])
         IN  PlayFrom(i + 1, [cpcs EXCEPT ![p] = r.cpc],
                      IF r.hit THEN hits \cup {<<c, p>>} ELSE hits, pos)

\* The calls of percussion.play made by DrumSet.play from pair i on, hits being
\* the pairs whose is_played returned True, for the k-th frame evaluated and
\* controllers with velocities vel: the percussion's sounds afterwards and the
\* calls in order.
RECURSIVE SoundFrom(_, _, _, _, _)
SoundFrom(i, hits, acc, vel, k) ==
    IF i > Len(PlayPairs) THEN acc
    ELSE IF PlayPairs[i] \notin hits THEN SoundFrom(i + 1, hits, acc, vel, k)
    ELSE LET c == PlayPairs[i][1]
             p == PlayPairs[i][2]
             w == PercussionPlay(acc.sound[p], acc.sound_with_volume[p], vel[c],
                                 velocity_max_volume[c])
         IN  SoundFrom(i + 1, hits,
                       [sound |-> [acc.sound EXCEPT ![p] = w.sound],
                        sound_with_volume |->
                            [acc.sound_with_volume EXCEPT ![p] = w.sound_with_volume],
                        sounded |-> Append(acc.sounded,
                            [frame |-> k, controller |-> c, percussion |-> p,
                             velocity |-> vel[c],
                             velocity_max_volume |-> velocity_max_volume[c],
                             wave |-> w.sound_with_volume])],
                       vel, k)

\* DrumSet.play with the controllers at positions pos and velocities vel
DrumSetPlay(pos, vel) ==
    \E r \in {PlayFrom(1, currently_playing_controllers, {}, pos)} :
    \E w \in {IF r.hits = {}
              THEN [sound |-> sound, sound_with_volume |-> sound_with_volume,
                    sounded |-> sounded]
              ELSE SoundFrom(1, r.hits,
                             [sound |-> sound, sound_with_volume |-> sound_with_volume,
                              sounded |-> sounded],
                             vel, Len(played) + 1)} :
        /\ currently_playing_controllers' = r.cpcs
        /\ played' = Append(played, r.hits)
        /\ sound' = w.sound
        /\ sound_with_volume' = w.sound_with_volume
        /\ sounded' = w.sounded

---------------------------------------------------------------------------
\* State after DrumSet.__init__ for a configuration.

InitDrumSet ==
    /\ positions_in_time = [c \in Keys |-> <<>>]
    /\ position = [c \in Keys |-> None]
    /\ velocity = [c \in Keys |-> None]
    /\ observed = [c \in Keys |-> 0]
    /\ currently_playing_controllers = [p \in PercussionNames |-> {}]
    /\ played = <<>>
    /\ sound = [p \in PercussionNames |-> WaveFile(p)]
    /\ sound_with_volume = sound
    /\ sounded = <<>>

NoFrame == [grabbed |-> FALSE, image |-> [c \in Keys |-> None],
            frame_count |-> 0, timestamp |-> 0]

\* State after Interface.__init__ and the construction of the three stages
\* (Interface.start_interface): empty queues, every stage enabled.
InitStages ==
    /\ frames_to_track = <<>>
    /\ frames_tracked = <<>>
    /\ stream_enabled = TRUE
    /\ tracker_enabled = TRUE
    /\ output_enabled = TRUE
    /\ frame_count = 0
    /\ clock = 1
    /\ pcIn = "loop"
    /\ pcTr = "loop"
    /\ pcOut = "loop"
    /\ frame_read = NoFrame
    /\ frame_to_track = NoFrame
    /\ head_checked = 0
    /\ frame_out = NoFrame
    /\ circles = <<>>
    /\ pushed = [q \in {"A", "B"} |-> <<>>]
    /\ popped = [q \in {"A", "B"} |-> <<>>]
    /\ evicted = [q \in {"A", "B"} |-> {}]
    /\ overflows = [q \in {"A", "B"} |-> 0]
    /\ run = [q \in {"A", "B"} |-> 0]

\* The rest of the state where it plays no part: start_interface has started
\* the stages, no HSV arithmetic has been done, no scene is being watched.
InitAux ==
    /\ pcMain = "running"
    /\ hsv_self = <<0, 0, 0>>
    /\ hsv_other = <<0, 0, 0>>
    /\ hsv_sum = None
    /\ hsv_difference = None
    /\ scene = 0
    /\ frames_seen = <<>>

InitConfig ==
    /\ controllers \in {{"left"}, {"left", "right"}}
    /\ name \in [Keys -> Names]
    /\ name["left"] = "Stick"
    /\ ("right" \notin controllers) => (name["right"] = "Foot")
    /\ percussion \in {{"drum"}, {"drum", "cymbal"}}
    /\ deque_max_length = 1
    /\ velocity_max_volume = [c \in Keys |-> VelocityMaxVolume(c)]

---------------------------------------------------------------------------
\* SpecTracking: the Tracking Stage fed frame after frame, the k-th frame
\* built with timestamp k - 1 (k = 1, 2, ...).

InitTracking == InitConfig /\ InitDrumSet /\ InitStages /\ InitAux

\* One iteration of Tracker.start_tracker on a frame: track_controllers_in_frame,
\* then drum_set.play().
TrackFrame ==
    /\ Len(played) * Cardinality(controllers) < MaxSamples
    /\ \E image \in Images, now \in 1..MaxTime :
          LET frame == Frame(TRUE, image, Len(played) + 1, <<Len(played)>>, now)
          IN  /\ \A c \in Keys \ controllers : image[c] = None
              /\ TrackControllersInFrame(frame)
              /\ DrumSetPlay(position', velocity')
    /\ UNCHANGED <<auxVars, cfgVars, pipeVars>>

NextTracking == TrackFrame

SpecTracking == InitTracking /\ [][NextTracking]_vars

---------------------------------------------------------------------------
\* Claims about hit detection, checked under SpecTracking.

\* The controller has a position and it lies strictly inside the zone of p.
Inside(c, p) ==
    /\ position[c] # None
    /\ (position[c][1] - center_position(p)[1]) * (position[c][1] - center_position(p)[1])
         + (position[c][2] - center_position(p)[2]) * (position[c][2] - center_position(p)[2])
       < radius(p) * radius(p)

\* No other controller of the drum set carries the name of c.
NameIsUnique(c) == \A d \in controllers : d # c => name[d] # name[c]

\* The evaluation of the frame just processed played p for c.
HitNow(c, p) == played # <<>> /\ <<c, p>> \in played[Len(played)]

\* C1: for a controller evaluated on its own against a percussion (no other
\* controller carries its name), an evaluation returns true exactly when the
\* controller is inside the zone at this evaluation and was not inside it at
\* the previous one: one hit per entry, none while dwelling, a new hit after
\* leaving and re-entering.
C1_EdgeTriggeredHit ==
    [][\A c \in controllers, p \in percussion :
          (played' # played /\ NameIsUnique(c))
              => (HitNow(c, p)' <=> (Inside(c, p)' /\ ~Inside(c, p)))]_vars

\* Witness of C1: enter, dwell, leave, re-enter; hits on frames 1 and 4 only.
C1_Witness ==
    /\ Len(played) = 4
    /\ NameIsUnique("left")
    /\ [i \in 1..4 |-> positions_in_time["left"][i].position]
           = <<(<<5, 5>>), (<<5, 5>>), (<<20, 20>>), (<<5, 5>>)>>
    /\ [i \in 1..4 |-> <<"left", "drum">> \in played[i]] = <<TRUE, FALSE, FALSE, TRUE>>

\* C2: membership is per controller key: whatever the names, every controller
\* gets a hit exactly on its own entry into a zone, so another controller
\* entering, dwelling or leaving neither suppresses that hit nor re-arms it.
C2_PerControllerKey ==
    [][\A c \in controllers, p \in percussion :
          (played' # played)
              => (HitNow(c, p)' <=> (Inside(c, p)' /\ ~Inside(c, p)))]_vars

\* C3: a single controller whose segmentation yields None, (0,0), (5,5),
\* (20,20) in four frames, with the single percussion at (5,5) of radius 3:
\* one playback, while processing the third frame.
Script == <<None, (<<0, 0>>), (<<5, 5>>), (<<20, 20>>)>>
ScriptPlays == <<{}, {}, {<<"left", "drum">>}, {}>>
C3_EndToEnd ==
    (/\ controllers = {"left"}
     /\ percussion = {"drum"}
     /\ Len(played) <= 4
     /\ Len(positions_in_time["left"]) = Len(played)
     /\ \A i \in 1..Len(played) : positions_in_time["left"][i].position = Script[i])
        => \A i \in 1..Len(played) : played[i] = ScriptPlays[i]

\* Witness of C3: the four scripted frames have been processed.
C3_Witness ==
    /\ controllers = {"left"}
    /\ percussion = {"drum"}
    /\ Len(played) = 4
    /\ [i \in 1..4 |-> positions_in_time["left"][i].position] = Script
    /\ played = ScriptPlays

---------------------------------------------------------------------------
\* Claims about the sound played for a hit, checked under SpecTracking.

\* The volume a call of Percussion.play scaled its waveform by.
AppliedVolume(e) == e.wave.volumes[Len(e.wave.volumes)]

\* The calls of Percussion.play made for a controller whose velocity was known.
KnownVelocityHits == {i \in 1..Len(sounded) : sounded[i].velocity # None}

\* The square of velocity_max_volume times the velocity's denominator: the
\* velocity sqrt(n) / d equals velocity_max_volume exactly when n equals it.
MaxVolume2(e) ==
    (e.velocity[2] * e.velocity_max_volume) * (e.velocity[2] * e.velocity_max_volume)

\* C11: for a hit by a controller with known velocity v the volume applied is
\* log2(1 + v / velocity_max_volume) limited to [0, 1]: it is 0 for v = 0,
\* exactly 1 for v = velocity_max_volume, 1 for every greater v, the
\* logarithm itself in between, and never outside [0, 1].
C11_VolumeShaping ==
    \A i \in KnownVelocityHits :
        LET e   == sounded[i]
            n   == e.velocity[1]
            vol == AppliedVolume(e)
        IN  /\ vol[2] > 0 /\ 0 <= vol[1] /\ vol[1] <= vol[2] * vol[2]
            /\ (n = 0) => (vol[1] = 0)
            /\ (n >= MaxVolume2(e)) => (vol[1] = vol[2] * vol[2])
            /\ (n < MaxVolume2(e)) => (vol[1] * MaxVolume2(e) = n * vol[2] * vol[2])

\* Witness of C11: one hit was made at exactly velocity_max_volume and another
\* at a greater velocity.
C11_Witness ==
    /\ \E i \in KnownVelocityHits : sounded[i].velocity[1] = MaxVolume2(sounded[i])
    /\ \E i \in KnownVelocityHits : sounded[i].velocity[1] > MaxVolume2(sounded[i])

\* C12: the original waveform of a percussion is the same after any number of
\* hits, and the waveform played for a hit with known velocity is the original
\* scaled once, by that hit's volume: it does not depend on earlier hits.
C12_ScaledFromOriginal ==
    /\ \A p \in PercussionNames : sound[p] = WaveFile(p)
    /\ \A p \in PercussionNames :
           /\ sound_with_volume[p].wave_file = p
           /\ Len(sound_with_volume[p].volumes) <= 1
    /\ \A i \in KnownVelocityHits :
           LET e == sounded[i]
           IN  /\ e.wave.wave_file = e.percussion
               /\ Len(e.wave.volumes) = 1
               /\ \A j \in KnownVelocityHits :
                      (/\ sounded[j].percussion = e.percussion
                       /\ sounded[j].velocity = e.velocity
                       /\ sounded[j].velocity_max_volume = e.velocity_max_volume)
                      => sounded[j].wave = e.wave

\* Witness of C12: a percussion was hit twice at known velocities that gave
\* different waveforms, the second while the first scaled waveform was held.
C12_Witness ==
    \E i, j \in KnownVelocityHits :
        /\ i < j
        /\ sounded[i].percussion = sounded[j].percussion
        /\ sounded[i].wave # sounded[j].wave
        /\ sound_with_volume[sounded[j].percussion] = sounded[j].wave
        /\ sound[sounded[j].percussion] = WaveFile(sounded[j].percussion)

\* C18: a frame constructed with an explicit timestamp keeps exactly that
\* timestamp, 0 included.  The k-th frame of SpecTracking is constructed with
\* the timestamp k - 1, and every sample carries the timestamp of its frame.
C18_ExplicitTimestampKept ==
    \A c \in controllers :
        \A k \in 1..Len(positions_in_time[c]) :
            positions_in_time[c][k].timestamp = k - 1

\* The newest sample of controller c has no position: the frame just tracked
\* did not show it.
Undetected(c) ==
    /\ positions_in_time[c] # <<>>
    /\ positions_in_time[c][Len(positions_in_time[c])].position = None

\* C22: while a frame in which a controller is not detected is processed, no
\* percussion is played for that controller and the controller's membership
\* in no percussion's currently_playing_controllers changes.
C22_NoHitWithoutDetection ==
    [][\A c \in controllers, p \in percussion :
          (played' # played /\ Undetected(c)')
              => /\ ~HitNow(c, p)'
                 /\ (PlayingMember(c) \in currently_playing_controllers'[p])
                        <=> (PlayingMember(c) \in currently_playing_controllers[p])]_vars

\* C22 for controllers whose name no other controller carries.
C22_UniqueNames ==
    [][\A c \in controllers, p \in percussion :
          (played' # played /\ Undetected(c)' /\ NameIsUnique(c))
              => /\ ~HitNow(c, p)'
                 /\ (PlayingMember(c) \in currently_playing_controllers'[p])
                        <=> (PlayingMember(c) \in currently_playing_controllers[p])]_vars

\* Samples j - 1 and j of controller c both have a position and the later one
\* a greater timestamp: a velocity can be computed from them.
ValidPair(c, j) ==
    /\ j >= 2 /\ j <= Len(positions_in_time[c])
    /\ positions_in_time[c][j].position # None
    /\ positions_in_time[c][j - 1].position # None
    /\ positions_in_time[c][j].timestamp > positions_in_time[c][j - 1].timestamp

\* The first difference of samples j - 1 and j, as a velocity.
FirstDifference(c, j) ==
    <<Norm2(positions_in_time[c][j].position, positions_in_time[c][j - 1].position),
      positions_in_time[c][j].timestamp - positions_in_time[c][j - 1].timestamp>>

\* C23 as stated: at every hit by a controller with a known velocity, that
\* velocity is the first difference of the sample of the frame of the hit and
\* the sample of the frame before it, never a value kept from earlier samples.
C23_VelocityFreshAtHit ==
    \A i \in KnownVelocityHits :
        LET e == sounded[i]
        IN  /\ ValidPair(e.controller, e.frame)
            /\ e.velocity = FirstDifference(e.controller, e.frame)

\* C23 amended: at every hit by a controller with a known velocity, that
\* velocity is the first difference of the latest two consecutive samples, up
\* to the frame of the hit, that both have a position and increasing
\* timestamps; when the sample of the frame of the hit and the one before it
\* are not such a pair, it is a value kept from earlier samples.
C23_VelocityOfLatestValidPair ==
    \A i \in KnownVelocityHits :
        LET e == sounded[i]
            c == e.controller
        IN  \E j \in 2..e.frame :
                /\ ValidPair(c, j)
                /\ \A m \in (j + 1)..e.frame : ~ValidPair(c, m)
                /\ e.velocity = FirstDifference(c, j)

\* Witness of C23: a hit was played at a velocity kept from earlier samples,
\* the frame before the hit not having shown the controller.
C23_Witness ==
    \E i \in KnownVelocityHits :
        LET e == sounded[i]
        IN  /\ e.frame >= 2
            /\ positions_in_time[e.controller][e.frame].position # None
            /\ positions_in_time[e.controller][e.frame - 1].position = None
            /\ \E j \in 2..(e.frame - 1) :
                   /\ ValidPair(e.controller, j)
                   /\ e.velocity = FirstDifference(e.controller, j)

\* C24: a hit by a controller whose velocity is None plays the percussion's
\* original waveform, not scaled by anything, whatever hits came before it.
C24_UnknownVelocityPlaysOriginal ==
    \A i \in 1..Len(sounded) :
        (sounded[i].velocity = None)
            => (sounded[i].wave = WaveFile(sounded[i].percussion))

---------------------------------------------------------------------------
\* SpecMotion: samples observed by the controllers one at a time, with any
\* position and any timestamp.

MotionPositions == {None, <<0, 0>>, <<3, 4>>}
Timestamps == 0..MaxTime

InitMotion ==
    /\ controllers \in {{"left"}, {"left", "right"}}
    /\ name = [c \in Keys |-> IF c = "left" THEN "Stick" ELSE "Foot"]
    /\ percussion = {"drum"}
    /\ deque_max_length = 1
    /\ velocity_max_volume = [c \in Keys |-> VelocityMaxVolume(c)]
    /\ InitDrumSet
    /\ InitStages
    /\ InitAux

Observations == Len(positions_in_time["left"]) + Len(positions_in_time["right"])

\* positions_in_time.append(PositionInTime(pos, timestamp)), then
\* refresh_motion_attributes(), on controller c.
Observe(c, pos, timestamp) ==
    /\ Observations < MaxObs
    /\ ObserveController(c, pos, timestamp)
    /\ UNCHANGED <<auxVars, cfgVars, percVars, pipeVars>>

NextMotion ==
    \E c \in controllers, pos \in MotionPositions, timestamp \in Timestamps :
        Observe(c, pos, timestamp)

SpecMotion == InitMotion /\ [][NextMotion]_vars

---------------------------------------------------------------------------
\* Claims about the motion model, checked under SpecMotion.

Newest(q) == q[Len(q)]

\* C7: a sample without a position observed right after a sample with one
\* leaves the current position at that sample's position and the velocity at
\* the value it had before.
C7_HoldLastKnown ==
    [][\A c \in controllers :
          (/\ positions_in_time'[c] # positions_in_time[c]
           /\ positions_in_time[c] # <<>>
           /\ Newest(positions_in_time[c]).position # None
           /\ Newest(positions_in_time'[c]).position = None)
              => /\ position'[c] = Newest(positions_in_time[c]).position
                 /\ velocity'[c] = velocity[c]]_vars

\* Witness of C7: two samples with positions gave a velocity, a third sample
\* without a position was observed, position and velocity are those of before.
C7_Witness ==
    \E c \in controllers :
        /\ Len(positions_in_time[c]) = 3
        /\ positions_in_time[c][2].position # None
        /\ positions_in_time[c][3].position = None
        /\ position[c] = positions_in_time[c][2].position
        /\ velocity[c] # None

\* C8: when the two most recent samples both have a position and the later
\* timestamp is the greater, velocity = distance / time difference, stated on
\* squares: num2 * dt^2 = dist^2 * den^2; (0,0) at 0 then (3,4) at 2 give 5/2.
C8_VelocityFirstDifference ==
    \A c \in controllers :
        LET pit == positions_in_time[c]
            n   == Len(pit)
        IN  (/\ n > 1
             /\ pit[n].position # None
             /\ pit[n - 1].position # None
             /\ pit[n].timestamp > pit[n - 1].timestamp)
                => LET dx == pit[n].position[1] - pit[n - 1].position[1]
                       dy == pit[n].position[2] - pit[n - 1].position[2]
                       dt == pit[n].timestamp - pit[n - 1].timestamp
                   IN  /\ velocity[c] # None
                       /\ velocity[c][2] > 0
                       /\ velocity[c][1] * dt * dt
                            = (dx * dx + dy * dy) * velocity[c][2] * velocity[c][2]
                       /\ (/\ pit[n - 1] = [position |-> <<0, 0>>, timestamp |-> 0]
                           /\ pit[n] = [position |-> <<3, 4>>, timestamp |-> 2])
                              => 4 * velocity[c][1] = 25 * velocity[c][2] * velocity[c][2]

\* Witness of C8: (0,0) at 0 then (3,4) at 2 observed, the velocity is 5/2.
C8_Witness ==
    \E c \in controllers :
        /\ positions_in_time[c] = <<[position |-> <<0, 0>>, timestamp |-> 0],
                                    [position |-> <<3, 4>>, timestamp |-> 2]>>
        /\ velocity[c] # None
        /\ 4 * velocity[c][1] = 25 * velocity[c][2] * velocity[c][2]

\* C9: when the two most recent samples both have a position and the time
\* difference is zero or negative, the observation leaves the velocity as it
\* was (None included) and moves the position to the newest sample's.
C9_DegenerateTimestamp ==
    [][\A c \in controllers :
          (/\ positions_in_time'[c] # positions_in_time[c]
           /\ positions_in_time[c] # <<>>
           /\ Newest(positions_in_time[c]).position # None
           /\ Newest(positions_in_time'[c]).position # None
           /\ Newest(positions_in_time'[c]).timestamp
                 <= Newest(positions_in_time[c]).timestamp)
              => /\ velocity'[c] = velocity[c]
                 /\ position'[c] = Newest(positions_in_time'[c]).position]_vars

\* Witness of C9: a velocity was known, then a sample with a position and a
\* timestamp not after the previous one was observed.
C9_Witness ==
    \E c \in controllers :
        /\ Len(positions_in_time[c]) = 3
        /\ \A i \in 1..3 : positions_in_time[c][i].position # None
        /\ positions_in_time[c][2].timestamp > positions_in_time[c][1].timestamp
        /\ positions_in_time[c][3].timestamp <= positions_in_time[c][2].timestamp
        /\ positions_in_time[c][3].position # positions_in_time[c][2].position
        /\ position[c] = positions_in_time[c][3].position
        /\ velocity[c] = <<Norm2(positions_in_time[c][2].position,
                                 positions_in_time[c][1].position),
                           positions_in_time[c][2].timestamp
                               - positions_in_time[c][1].timestamp>>

\* C10: a controller that has observed fewer than two samples with a position
\* has no velocity.
C10_VelocityNoneUntilTwoSamples ==
    \A c \in controllers : observed[c] < 2 => velocity[c] = None

\* Witness of C10: several samples observed, one of them with a position.
C10_Witness ==
    \E c \in controllers :
        /\ Len(positions_in_time[c]) = 3
        /\ observed[c] = 1
        /\ Newest(positions_in_time[c]).position # None
        /\ velocity[c] = None

---------------------------------------------------------------------------
\* Spec: the three stages running concurrently on the two frame queues.

\* What the camera can show: the controller away, or in the drum.
PipePositions == {None, <<5, 5>>}
PipeImages == {image \in Images :
                  \A c \in Keys : image[c] \in PipePositions
                                  /\ (c \notin controllers => image[c] = None)}

Init ==
    /\ controllers = {"left"}
    /\ name = [c \in Keys |-> IF c = "left" THEN "Stick" ELSE "Foot"]
    /\ percussion = {"drum"}
    /\ deque_max_length \in 1..MaxCap
    /\ velocity_max_volume = [c \in Keys |-> VelocityMaxVolume(c)]
    /\ InitDrumSet
    /\ InitStages
    /\ InitAux

\* The record of an append of frame number count on queue q holding queue.
LogAppend(q, queue, count) ==
    /\ pushed' = [pushed EXCEPT ![q] = Append(@, count)]
    /\ evicted' = [evicted EXCEPT ![q] =
                      IF Len(queue) = deque_max_length
                      THEN @ \cup {queue[1].frame_count} ELSE @]
    /\ overflows' = [overflows EXCEPT ![q] =
                        IF Len(queue) = deque_max_length THEN @ + 1 ELSE @]
    /\ run' = [run EXCEPT ![q] = @ + 1]
    /\ UNCHANGED popped

\* The record of a pop of frame number count from queue q.
LogPop(q, count) ==
    /\ popped' = [popped EXCEPT ![q] = Append(@, count)]
    /\ run' = [run EXCEPT ![q] = 0]
    /\ UNCHANGED <<pushed, evicted, overflows>>

\* InputVideoStream.start_stream: the loop test, the sleep and _refresh_fps.
InLoop ==
    /\ pcIn = "loop"
    /\ IF stream_enabled
       THEN /\ frame_count < MaxFrames
            /\ frame_count' = frame_count + 1
            /\ pcIn' = "read"
       ELSE /\ pcIn' = "released"
            /\ UNCHANGED frame_count
    /\ UNCHANGED <<frame_read, clock>>
    /\ UNCHANGED <<auxVars, cfgVars, ctlVars, percVars, queueVars, flagVars, trVars, outVars, logVars>>

\* Mutant: the frame of a capture that was not grabbed is passed on as it is.
InRead_PassesUngrabbed ==
    /\ pcIn = "read"
    /\ \E grabbed \in BOOLEAN, image \in PipeImages :
          /\ clock' = clock + 1
          /\ IF grabbed
             THEN /\ frame_read' = Frame(TRUE, image, frame_count, None, clock)
                  /\ pcIn' = "append"
             ELSE /\ image = [c \in Keys |-> None]
                  /\ frame_read' = Frame(FALSE, image, frame_count, None, clock)
                  /\ pcIn' = "append"
    /\ UNCHANGED frame_count
    /\ UNCHANGED <<auxVars, cfgVars, ctlVars, percVars, queueVars, flagVars, trVars, outVars, logVars>>

\* InputVideoStream.read_frame: the capture, Frame(...) and _preprocess_frame,
\* whose cv2.resize raises on the None image of a capture that was not grabbed.
\* Two reads are a time.sleep(LOOP_SLEEP) apart: each reads a later time.
InRead ==
    /\ pcIn = "read"
    /\ \E grabbed \in BOOLEAN, image \in PipeImages :
          /\ clock' = clock + 1
          /\ IF grabbed
             THEN /\ frame_read' = Frame(TRUE, image, frame_count, None, clock)
                  /\ pcIn' = "append"
             ELSE /\ image = [c \in Keys |-> None]
                  /\ frame_read' = Frame(FALSE, image, frame_count, None, clock)
                  /\ pcIn' = "error"
    /\ UNCHANGED frame_count
    /\ UNCHANGED <<auxVars, cfgVars, ctlVars, percVars, queueVars, flagVars, trVars, outVars, logVars>>

\* InputVideoStream.start_stream: self.frames.append(frame)
InAppend ==
    /\ pcIn = "append"
    /\ frames_to_track' = DequeAppend(frames_to_track, frame_read, deque_max_length)
    /\ LogAppend("A", frames_to_track, frame_read.frame_count)
    /\ pcIn' = "loop"
    /\ UNCHANGED <<frame_read, frame_count, clock, frames_tracked>>
    /\ UNCHANGED <<auxVars, cfgVars, ctlVars, percVars, flagVars, trVars, outVars>>

\* InputVideoStream.stop_stream
StopStream ==
    /\ stream_enabled
    /\ stream_enabled' = FALSE
    /\ UNCHANGED <<tracker_enabled, output_enabled>>
    /\ UNCHANGED <<auxVars, cfgVars, ctlVars, percVars, queueVars, inVars, trVars, outVars, logVars>>

\* Mutant: a stopped tracker first drains its input queue.
TrLoop_DrainsQueue ==
    /\ pcTr = "loop"
    /\ pcTr' = IF tracker_enabled \/ frames_to_track # <<>> THEN "check" ELSE "done"
    /\ UNCHANGED <<frame_to_track, head_checked>>
    /\ UNCHANGED <<auxVars, cfgVars, ctlVars, percVars, queueVars, flagVars, inVars, outVars, logVars>>

\* Tracker.start_tracker: the loop test and the sleep.
TrLoop ==
    /\ pcTr = "loop"
    /\ pcTr' = IF tracker_enabled THEN "check" ELSE "done"
    /\ UNCHANGED <<frame_to_track, head_checked>>
    /\ UNCHANGED <<auxVars, cfgVars, ctlVars, percVars, queueVars, flagVars, inVars, outVars, logVars>>

\* Mutant: the Tracking Stage pops only from a full queue.
TrCheck_WaitsForFullQueue ==
    /\ pcTr = "check"
    /\ pcTr' = IF Len(frames_to_track) < deque_max_length THEN "loop" ELSE "pop"
    /\ head_checked' = IF Len(frames_to_track) < deque_max_length
                       THEN 0 ELSE Head(frames_to_track).frame_count
    /\ UNCHANGED frame_to_track
    /\ UNCHANGED <<auxVars, cfgVars, ctlVars, percVars, queueVars, flagVars, inVars, outVars, logVars>>

\* Tracker.start_tracker: if not self.frames_to_track: continue
TrCheck ==
    /\ pcTr = "check"
    /\ pcTr' = IF frames_to_track = <<>> THEN "loop" ELSE "pop"
    /\ head_checked' = IF frames_to_track = <<>> THEN 0 ELSE Head(frames_to_track).frame_count
    /\ UNCHANGED frame_to_track
    /\ UNCHANGED <<auxVars, cfgVars, ctlVars, percVars, queueVars, flagVars, inVars, outVars, logVars>>

\* Mutant: the popped frame goes to queue B at once and is not tracked.
TrPop_PushFirst ==
    /\ pcTr = "pop"
    /\ IF frames_to_track = <<>>
       THEN /\ pcTr' = "error"
            /\ UNCHANGED <<frame_to_track, frames_to_track, logVars>>
       ELSE /\ frame_to_track' = Head(frames_to_track)
            /\ frames_to_track' = Tail(frames_to_track)
            /\ LogPop("A", Head(frames_to_track).frame_count)
            /\ pcTr' = "append"
    /\ head_checked' = 0
    /\ UNCHANGED frames_tracked
    /\ UNCHANGED <<auxVars, cfgVars, ctlVars, percVars, flagVars, inVars, outVars>>

\* Tracker.start_tracker: self.frames_to_track.popleft(), IndexError when empty
TrPop ==
    /\ pcTr = "pop"
    /\ IF frames_to_track = <<>>
       THEN /\ pcTr' = "error"
            /\ UNCHANGED <<frame_to_track, frames_to_track, logVars>>
       ELSE /\ frame_to_track' = Head(frames_to_track)
            /\ frames_to_track' = Tail(frames_to_track)
            /\ LogPop("A", Head(frames_to_track).frame_count)
            /\ pcTr' = "track"
    /\ head_checked' = 0
    /\ UNCHANGED frames_tracked
    /\ UNCHANGED <<auxVars, cfgVars, ctlVars, percVars, flagVars, inVars, outVars>>

\* Tracker.start_tracker: self.track_controllers_in_frame(frame_to_track, ...)
TrTrack ==
    /\ pcTr = "track"
    /\ TrackControllersInFrame(frame_to_track)
    /\ pcTr' = "append"
    /\ UNCHANGED <<frame_to_track, head_checked>>
    /\ UNCHANGED <<auxVars, cfgVars, percVars, queueVars, flagVars, inVars, outVars, logVars>>

\* Tracker.start_tracker: self.frames_tracked.append(frame_tracked)
TrAppend ==
    /\ pcTr = "append"
    /\ frames_tracked' = DequeAppend(frames_tracked, frame_to_track, deque_max_length)
    /\ LogAppend("B", frames_tracked, frame_to_track.frame_count)
    /\ pcTr' = "play"
    /\ UNCHANGED <<frame_to_track, head_checked, frames_to_track>>
    /\ UNCHANGED <<auxVars, cfgVars, ctlVars, percVars, flagVars, inVars, outVars>>

\* Tracker.start_tracker: self.drum_set.play()
TrPlay ==
    /\ pcTr = "play"
    /\ DrumSetPlay(position, velocity)
    /\ pcTr' = "loop"
    /\ UNCHANGED <<frame_to_track, head_checked>>
    /\ UNCHANGED <<auxVars, cfgVars, ctlVars, queueVars, flagVars, inVars, outVars, logVars>>

\* Tracker.stop_tracker
StopTracker ==
    /\ tracker_enabled
    /\ tracker_enabled' = FALSE
    /\ UNCHANGED <<stream_enabled, output_enabled>>
    /\ UNCHANGED <<auxVars, cfgVars, ctlVars, percVars, queueVars, inVars, trVars, outVars, logVars>>

\* OutputVideoStream.start_stream: the loop test.
OutLoop ==
    /\ pcOut = "loop"
    /\ pcOut' = IF output_enabled THEN "check" ELSE "done"
    /\ UNCHANGED <<frame_out, circles>>
    /\ UNCHANGED <<auxVars, cfgVars, ctlVars, percVars, queueVars, flagVars, inVars, trVars, logVars>>

\* OutputVideoStream.start_stream: if not self.frames: continue
OutCheck ==
    /\ pcOut = "check"
    /\ pcOut' = IF frames_tracked = <<>> THEN "loop" ELSE "pop"
    /\ UNCHANGED <<frame_out, circles>>
    /\ UNCHANGED <<auxVars, cfgVars, ctlVars, percVars, queueVars, flagVars, inVars, trVars, logVars>>

\* OutputVideoStream.start_stream: self.frames.popleft(), IndexError when empty
OutPop ==
    /\ pcOut = "pop"
    /\ IF frames_tracked = <<>>
       THEN /\ pcOut' = "error"
            /\ UNCHANGED <<frame_out, frames_tracked, logVars>>
       ELSE /\ frame_out' = Head(frames_tracked)
            /\ frames_tracked' = Tail(frames_tracked)
            /\ LogPop("B", Head(frames_tracked).frame_count)
            /\ pcOut' = "render"
    /\ UNCHANGED <<frames_to_track, circles>>
    /\ UNCHANGED <<auxVars, cfgVars, ctlVars, percVars, flagVars, inVars, trVars>>

\* The centers OutputVideoStream._render_frame passes to cv2.circle: for each
\* controller in turn, Controller.add_controller_position passes self.position.
RenderCenters ==
    LET cs == SelectSeq2(ControllerOrder, controllers)
    IN  [i \in 1..Len(cs) |-> position[cs[i]]]

\* The centers up to and with the first None.
UpToFirstNone(centers) ==
    LET i == CHOOSE i \in 1..Len(centers) :
                 centers[i] = None /\ \A j \in 1..(i - 1) : centers[j] # None
    IN  SubSeq(centers, 1, i)

\* Mutant: rendering a frame evaluates the hits as well.
OutRender_AlsoPlays ==
    /\ pcOut = "render"
    /\ \E raises \in BOOLEAN :
          IF \E i \in 1..Len(RenderCenters) : RenderCenters[i] = None
          THEN IF raises
               THEN /\ circles' = UpToFirstNone(RenderCenters)
                    /\ pcOut' = "error"
               ELSE /\ circles' = RenderCenters
                    /\ pcOut' = "loop"
          ELSE /\ ~raises
               /\ circles' = RenderCenters
               /\ pcOut' = "loop"
    /\ DrumSetPlay(position, velocity)
    /\ UNCHANGED frame_out
    /\ UNCHANGED <<auxVars, cfgVars, ctlVars, queueVars, flagVars, inVars, trVars, logVars>>

\* OutputVideoStream._render_frame: every controller's position goes to
\* cv2.circle as the center, None included.  What cv2.circle does with a center
\* of None depends on the OpenCV build: it raises (the exception ends the
\* Rendering Stage's loop) or it takes the default point and draws.
OutRender ==
    /\ pcOut = "render"
    /\ \E raises \in BOOLEAN :
          IF \E i \in 1..Len(RenderCenters) : RenderCenters[i] = None
          THEN IF raises
               THEN /\ circles' = UpToFirstNone(RenderCenters)
                    /\ pcOut' = "error"
               ELSE /\ circles' = RenderCenters
                    /\ pcOut' = "loop"
          ELSE /\ ~raises
               /\ circles' = RenderCenters
               /\ pcOut' = "loop"
    /\ UNCHANGED frame_out
    /\ UNCHANGED <<auxVars, cfgVars, ctlVars, percVars, queueVars, flagVars, inVars, trVars, logVars>>

\* OutputVideoStream.stop_stream
StopOutput ==
    /\ output_enabled
    /\ output_enabled' = FALSE
    /\ UNCHANGED <<stream_enabled, tracker_enabled>>
    /\ UNCHANGED <<auxVars, cfgVars, ctlVars, percVars, queueVars, inVars, trVars, outVars, logVars>>

Next ==
    \/ InLoop \/ InRead \/ InAppend \/ StopStream
    \/ TrLoop \/ TrCheck \/ TrPop \/ TrTrack \/ TrAppend \/ TrPlay \/ StopTracker
    \/ OutLoop \/ OutCheck \/ OutPop \/ OutRender \/ StopOutput

Spec == Init /\ [][Next]_vars

\* The steps of each stage's thread (the Rendering Stage runs in the main one).
InputStep == InLoop \/ InRead \/ InAppend
TrackerStep == TrLoop \/ TrCheck \/ TrPop \/ TrTrack \/ TrAppend \/ TrPlay
OutputStep == OutLoop \/ OutCheck \/ OutPop \/ OutRender

---------------------------------------------------------------------------
\* Claims about the frame queues, checked under Spec.

QueueNames == {"A", "B"}
Queue(q) == IF q = "A" THEN frames_to_track ELSE frames_tracked
\* The frame numbers held by a queue, oldest first.
Counts(queue) == [i \in 1..Len(queue) |-> queue[i].frame_count]
LastN(s, n) == SubSeq(s, Len(s) - n + 1, Len(s))
Range(s) == {s[i] : i \in 1..Len(s)}
Increasing(s) == \A i \in 1..(Len(s) - 1) : s[i] < s[i + 1]

\* C4: after more appends than the capacity N with no pop in between, a queue
\* holds the N frames appended last, in the order of their appends; after N + 1
\* appends on an empty queue only the first frame is missing.
C4_EvictingBoundedQueue ==
    \A q \in QueueNames :
        /\ run[q] > deque_max_length
              => Counts(Queue(q)) = LastN(pushed[q], deque_max_length)
        /\ (run[q] = deque_max_length + 1 /\ Len(pushed[q]) = run[q])
              => Range(pushed[q]) \ Range(Counts(Queue(q))) = {pushed[q][1]}

\* Witness of C4: three appends and no pop on a queue of capacity 2.
C4_Witness ==
    /\ deque_max_length = 2
    /\ run["A"] = 3
    /\ pushed["A"] = <<1, 2, 3>>
    /\ Counts(frames_to_track) = <<2, 3>>

\* An append that evicts the oldest element of a full queue.
EvictingAppend(queue, x) ==
    IF Len(queue) = deque_max_length THEN Append(Tail(queue), x) ELSE Append(queue, x)

\* C5: a stage that has a frame to append can always append it, whatever the
\* length of the queue and whatever the consumer does: the append is enabled,
\* evicts the oldest frame of a full queue, and the stage goes on, not to an
\* error.
C5_ProducerNeverBlocks ==
    /\ pcIn = "append"
          => ENABLED (/\ InAppend
                      /\ pcIn' = "loop"
                      /\ frames_to_track' = EvictingAppend(frames_to_track, frame_read))
    /\ pcTr = "append"
          => ENABLED (/\ TrAppend
                      /\ pcTr' = "play"
                      /\ frames_tracked' = EvictingAppend(frames_tracked, frame_to_track))

\* Witness of C5: the Tracking Stage has stopped without ever popping, queue A
\* is full and has already overflowed, and the Acquisition Stage appends again.
C5_Witness ==
    /\ pcIn = "append"
    /\ pcTr = "done"
    /\ popped["A"] = <<>>
    /\ Len(frames_to_track) = deque_max_length
    /\ overflows["A"] > 0

\* C6: whatever the interleaving of appends and pops, the frames popped from a
\* queue followed by the frames it holds are in append order without
\* repetition, and the frames appended that are neither popped nor held are
\* the heads met by the appends on a full queue, one per such append.
C6_OrderedLossOnlyByEviction ==
    \A q \in QueueNames :
        LET kept == popped[q] \o Counts(Queue(q))
        IN  /\ Increasing(pushed[q])
            /\ Increasing(kept)
            /\ Range(kept) \subseteq Range(pushed[q])
            /\ Range(pushed[q]) \ Range(kept) = evicted[q]
            /\ Cardinality(evicted[q]) = overflows[q]

\* Witness of C6: on queue A frames were popped, a frame was evicted and a
\* frame is held; the Rendering Stage has popped from queue B.
C6_Witness ==
    /\ popped["A"] # <<>>
    /\ evicted["A"] # {}
    /\ frames_to_track # <<>>
    /\ popped["B"] # <<>>

---------------------------------------------------------------------------
\* SpecHSV: the sum and the difference of two HSV colours within the range.

HSV_MINIMUM == <<0, 0, 0>>
HSV_MAXIMUM == <<180, 255, 255>>

\* HSV.minimum and HSV.maximum: element-wise np.minimum and np.maximum
HSV_minimum(hsv_1, hsv_2) ==
    [i \in 1..3 |-> IF hsv_1[i] <= hsv_2[i] THEN hsv_1[i] ELSE hsv_2[i]]
HSV_maximum(hsv_1, hsv_2) ==
    [i \in 1..3 |-> IF hsv_1[i] >= hsv_2[i] THEN hsv_1[i] ELSE hsv_2[i]]

\* Mutant: the sum is not limited.
HSV_add_Unlimited(self, other) == [i \in 1..3 |-> self[i] + other[i]]

\* HSV.__add__
HSV_add(self, other) ==
    HSV_minimum([i \in 1..3 |-> self[i] + other[i]], HSV_MAXIMUM)

\* HSV.__sub__
HSV_sub(self, other) ==
    HSV_maximum([i \in 1..3 |-> self[i] - other[i]], HSV_MINIMUM)

\* Colours within the range, its corners and Calibrator's spans among them.
Hues == {0, 8, 90, 180}
Saturations == {0, 10, 100, 255}
Colours == {<<h, s, v>> : h \in Hues, s \in Saturations, v \in Saturations}

InRange(hsv) == \A i \in 1..3 : HSV_MINIMUM[i] <= hsv[i] /\ hsv[i] <= HSV_MAXIMUM[i]

InitHSV ==
    /\ InitConfig /\ InitDrumSet /\ InitStages
    /\ controllers = {"left"}
    /\ percussion = {"drum"}
    /\ pcMain = "running"
    /\ scene = 0
    /\ frames_seen = <<>>
    /\ hsv_self \in Colours
    /\ hsv_other \in Colours
    /\ hsv_sum = None
    /\ hsv_difference = None

\* hsv_self + hsv_other
Add ==
    /\ hsv_sum' = HSV_add(hsv_self, hsv_other)
    /\ UNCHANGED <<pcMain, hsv_self, hsv_other, hsv_difference, scene, frames_seen>>
    /\ UNCHANGED <<cfgVars, ctlVars, percVars, pipeVars>>

\* hsv_self - hsv_other
Sub ==
    /\ hsv_difference' = HSV_sub(hsv_self, hsv_other)
    /\ UNCHANGED <<pcMain, hsv_self, hsv_other, hsv_sum, scene, frames_seen>>
    /\ UNCHANGED <<cfgVars, ctlVars, percVars, pipeVars>>

NextHSV == Add \/ Sub

SpecHSV == InitHSV /\ [][NextHSV]_vars

\* C13: the sum and the difference of two HSV colours whose components lie in
\* [0, 0, 0]..[180, 255, 255] have every component in that range.
C13_HSVStaysInRange ==
    (InRange(hsv_self) /\ InRange(hsv_other))
        => /\ (hsv_sum # None) => InRange(hsv_sum)
           /\ (hsv_difference # None) => InRange(hsv_difference)

\* Witness of C13: both were computed, the raw sum above the maximum in every
\* component and the raw difference below the minimum in every component.
C13_Witness ==
    /\ hsv_sum # None
    /\ hsv_difference # None
    /\ \A i \in 1..3 : hsv_self[i] + hsv_other[i] > HSV_MAXIMUM[i]
    /\ \A i \in 1..3 : hsv_self[i] - hsv_other[i] < HSV_MINIMUM[i]

---------------------------------------------------------------------------
\* Claims about the stages' lifecycle, checked under Spec.

\* A stage whose loop has ended: by its flag, or by an uncaught exception.
InputEnded == pcIn \in {"released", "error"}
TrackerEnded == pcTr \in {"done", "error"}
OutputEnded == pcOut \in {"done", "error"}

\* How far through one iteration of its loop a stage is; the loop test comes
\* last, the end of the loop after it.
InRank(pc) ==
    IF pc = "read" THEN 1 ELSE IF pc = "append" THEN 2 ELSE IF pc = "loop" THEN 3 ELSE 4
TrRank(pc) ==
    IF pc = "check" THEN 1 ELSE IF pc = "pop" THEN 2 ELSE IF pc = "track" THEN 3
    ELSE IF pc = "append" THEN 4 ELSE IF pc = "play" THEN 5
    ELSE IF pc = "loop" THEN 6 ELSE 7
OutRank(pc) ==
    IF pc = "check" THEN 1 ELSE IF pc = "pop" THEN 2 ELSE IF pc = "render" THEN 3
    ELSE IF pc = "loop" THEN 4 ELSE 5

\* One step of the lifecycle: a flag never goes back up; a stage whose flag is
\* down only moves forward through the iteration it is in, so it passes the
\* push, the tracking or the rendering of that iteration at most once, and at
\* its loop test it ends; a frame is pushed or tracked only at its one place in
\* the iteration; a stage that has ended does nothing more.
LifecycleStep ==
    /\ stream_enabled' => stream_enabled
    /\ tracker_enabled' => tracker_enabled
    /\ output_enabled' => output_enabled
    /\ (~stream_enabled /\ pcIn' # pcIn) => InRank(pcIn') > InRank(pcIn)
    /\ (~tracker_enabled /\ pcTr' # pcTr) => TrRank(pcTr') > TrRank(pcTr)
    /\ (~output_enabled /\ pcOut' # pcOut) => OutRank(pcOut') > OutRank(pcOut)
    /\ (~stream_enabled /\ pcIn = "loop" /\ pcIn' # pcIn) => pcIn' = "released"
    /\ (~tracker_enabled /\ pcTr = "loop" /\ pcTr' # pcTr) => pcTr' = "done"
    /\ (~output_enabled /\ pcOut = "loop" /\ pcOut' # pcOut) => pcOut' = "done"
    /\ (pushed["A"]' # pushed["A"]) => (pcIn = "append" /\ pcIn' = "loop")
    /\ (ctlVars' # ctlVars) => (pcTr = "track" /\ pcTr' = "append")
    /\ (pushed["B"]' # pushed["B"]) => (pcTr = "append" /\ pcTr' = "play")
    /\ (popped["B"]' # popped["B"]) => (pcOut = "pop" /\ pcOut' = "render")
    /\ InputEnded => (pcIn' = pcIn /\ pushed["A"]' = pushed["A"])
    /\ TrackerEnded => (pcTr' = pcTr /\ ctlVars' = ctlVars /\ pushed["B"]' = pushed["B"])
    /\ OutputEnded => (pcOut' = pcOut /\ popped["B"]' = popped["B"])

\* A stage whose flag is down and whose loop has not ended can take a step:
\* nothing in its loop waits for another stage (VideoCapture.read, time.sleep
\* and cv2.waitKey return).
NeverStuck ==
    /\ (~stream_enabled /\ ~InputEnded) => ENABLED InputStep
    /\ (~tracker_enabled /\ ~TrackerEnded) => ENABLED TrackerStep
    /\ (~output_enabled /\ ~OutputEnded) => ENABLED OutputStep

\* C14: a stage only goes from running to stopped and is never enabled again;
\* once its stop was called it finishes at most the iteration it is in (at most
\* one more frame pushed, tracked or rendered) and then its loop ends, also
\* when its input queue is empty: every step it takes brings it nearer the end
\* of its loop, and it can always take one.
C14_CooperativeShutdown == [][LifecycleStep]_vars /\ []NeverStuck

\* Witness of C14: frames went through, all three stages were stopped by their
\* flags and ended, Tracking and Rendering on an empty input queue.
C14_Witness ==
    /\ ~stream_enabled /\ ~tracker_enabled /\ ~output_enabled
    /\ pcIn = "released" /\ pcTr = "done" /\ pcOut = "done"
    /\ popped["B"] # <<>>
    /\ frames_to_track = <<>> /\ frames_tracked = <<>>

---------------------------------------------------------------------------
\* Claims about the order of one iteration of the Tracking Stage, checked
\* under Spec.

\* Frames whose motion update is done (the histories hold far fewer than
\* Controller_DEQUE_MAX_LENGTH samples here).
FramesTracked == Len(positions_in_time["left"])
\* Frames whose hit evaluation is done.
FramesEvaluated == Len(played)

\* C15 as stated: the motion state is updated first, then DrumSet.play runs,
\* and only then is the frame pushed to queue B, so that no frame is in queue B
\* or with the Rendering Stage before its hit evaluation is done.
C15_PlayBeforePush ==
    /\ FramesEvaluated <= FramesTracked
    /\ Len(pushed["B"]) <= FramesEvaluated

\* C15 amended: for every frame popped from queue A the motion state is
\* updated first, then the frame is pushed to queue B, and DrumSet.play runs
\* last; a frame is never in queue B before its motion update is done, and the
\* frames go to queue B in the order they were popped from queue A.
C15_TrackPushPlay ==
    /\ FramesEvaluated <= Len(pushed["B"])
    /\ Len(pushed["B"]) <= FramesTracked
    /\ FramesTracked <= Len(popped["A"])
    /\ Len(popped["A"]) <= FramesEvaluated + 1
    /\ pushed["B"] = SubSeq(popped["A"], 1, Len(pushed["B"]))

\* Witness of C15: the Rendering Stage has taken a frame from queue B while
\* the Tracking Stage has yet to evaluate the hits of that frame.
C15_Witness ==
    /\ pcTr = "play"
    /\ popped["B"] # <<>>
    /\ popped["B"][Len(popped["B"])] = frame_to_track.frame_count
    /\ FramesEvaluated < Len(pushed["B"])

---------------------------------------------------------------------------
\* Claims about who writes the drum set's state, checked under Spec.

\* One step as far as the controllers and the percussion go: the motion state
\* changes only in the Tracking Stage's track_controllers_in_frame, the member
\* sets and the sounds only in its drum_set.play, which evaluates one frame
\* per call; no step of another stage changes either.
SingleWriterStep ==
    /\ (ctlVars' # ctlVars) => (pcTr = "track" /\ pcTr' = "append")
    /\ (percVars' # percVars) =>
           /\ pcTr = "play" /\ pcTr' = "loop"
           /\ Len(played') = Len(played) + 1
    /\ (pcIn' # pcIn \/ pcOut' # pcOut) => UNCHANGED <<ctlVars, percVars>>

\* Every tracked frame is evaluated once, each (controller, percussion) pair
\* once in it, and no call of Percussion.play repeats a frame, controller and
\* percussion.
EvaluatedOnce ==
    /\ FramesEvaluated <= FramesTracked
    /\ FramesTracked <= FramesEvaluated + 1
    /\ (pcTr \notin {"append", "play"}) => (FramesEvaluated = FramesTracked)
    /\ Len(PlayPairs) = Cardinality(controllers) * Cardinality(percussion)
    /\ \A i, j \in 1..Len(PlayPairs) : (PlayPairs[i] = PlayPairs[j]) => (i = j)
    /\ \A i, j \in 1..Len(sounded) :
           (/\ sounded[i].frame = sounded[j].frame
            /\ sounded[i].controller = sounded[j].controller
            /\ sounded[i].percussion = sounded[j].percussion) => (i = j)
    /\ \A i \in 1..Len(sounded) :
           /\ sounded[i].frame \in 1..FramesEvaluated
           /\ <<sounded[i].controller, sounded[i].percussion>> \in played[sounded[i].frame]

\* C16: the controllers' motion state and the percussion's member sets are
\* written only by the Tracking Stage, hit evaluation runs only there and once
\* per (controller, percussion) pair for each tracked frame, the Rendering
\* Stage writes neither, and no frame plays the same percussion twice for the
\* same controller.
C16_SingleWriter == [][SingleWriterStep]_vars /\ []EvaluatedOnce

\* Witness of C16: two frames were tracked and evaluated, one of them played
\* the drum, and the Rendering Stage has rendered a frame since.
C16_Witness ==
    /\ FramesEvaluated = 2
    /\ FramesTracked = 2
    /\ Len(sounded) = 1
    /\ Len(popped["B"]) = 2
    /\ pcOut = "loop"

---------------------------------------------------------------------------
\* SpecStart: Interface.start_interface from its first line, for settings with
\* no, one or two controllers.

\* What a Controller object has: the attributes __init__ assigns, the class
\* attribute and the methods.
ControllerAttributes ==
    {"key", "name", "color_low", "color_high", "positions_in_time", "position",
     "velocity", "velocity_max_volume", "DEQUE_MAX_LENGTH",
     "refresh_motion_attributes", "add_controller_position", "calibrate",
     "get_largest_contour_center", "get_controller_mask"}

InitStart ==
    /\ controllers \in {{}, {"left"}, {"left", "right"}}
    /\ name = [c \in Keys |-> IF c = "left" THEN "Stick" ELSE "Foot"]
    /\ percussion = {"drum"}
    /\ deque_max_length = 1
    /\ velocity_max_volume = [c \in Keys |-> VelocityMaxVolume(c)]
    /\ InitDrumSet
    /\ InitStages
    /\ pcMain = "start"
    /\ hsv_self = <<0, 0, 0>>
    /\ hsv_other = <<0, 0, 0>>
    /\ hsv_sum = None
    /\ hsv_difference = None
    /\ scene = 0
    /\ frames_seen = <<>>

\* Interface.start_interface: the loop over self.drum_set.controllers, whose
\* body looks up controller.calibrate_color on the first controller.
StartCalibrate ==
    /\ pcMain = "start"
    /\ pcMain' = IF controllers # {} /\ "calibrate_color" \notin ControllerAttributes
                 THEN "AttributeError"
                 ELSE "calibrated"
    /\ UNCHANGED <<hsv_self, hsv_other, hsv_sum, hsv_difference, scene, frames_seen>>
    /\ UNCHANGED <<cfgVars, ctlVars, percVars, pipeVars>>

\* Interface.start_interface: the stages are constructed, input_thread and
\* tracker_thread are started, output_video_stream.start_stream() is entered.
StartStages ==
    /\ pcMain = "calibrated"
    /\ pcMain' = "running"
    /\ UNCHANGED <<hsv_self, hsv_other, hsv_sum, hsv_difference, scene, frames_seen>>
    /\ UNCHANGED <<cfgVars, ctlVars, percVars, pipeVars>>

NextStart ==
    \/ StartCalibrate
    \/ StartStages
    \/ (pcMain = "running" /\ Next)

SpecStart == InitStart /\ [][NextStart]_vars

\* start_interface has gone as far as it goes: into the rendering loop, or out
\* by an exception.
StartInterfaceOver == pcMain \in {"running", "AttributeError"}

\* C17: after Interface.start_interface is called on settings with at least
\* one controller, the Acquisition and the Tracking Stage are started in their
\* threads and the Rendering Stage's loop is entered.
C17_AllStagesStarted ==
    (controllers # {} /\ StartInterfaceOver) => (pcMain = "running")

---------------------------------------------------------------------------
\* SpecHistory: the Tracking Stage fed a long run of frames of one scene, each
\* frame stamped by the clock when it was read.

Scenes == 1..3

\* What segmentation finds for controller c in the k-th frame of scene s: the
\* marker moves from frame to frame and is out of sight in every (s + 1)-th.
ScenePosition(s, c, k) ==
    IF k % (s + 1) = 0 THEN None
    ELSE IF c = "left" THEN <<k % 7, k % 5>> ELSE <<k % 5, k % 7>>

SceneImage(s, k) ==
    [c \in Keys |-> IF c \in controllers THEN ScenePosition(s, c, k) ELSE None]

InitHistory ==
    /\ controllers \in {{"left"}, {"left", "right"}}
    /\ name = [c \in Keys |-> IF c = "left" THEN "Stick" ELSE "Foot"]
    /\ percussion = {"drum"}
    /\ deque_max_length = 1
    /\ velocity_max_volume = [c \in Keys |-> VelocityMaxVolume(c)]
    /\ InitDrumSet
    /\ InitStages
    /\ pcMain = "running"
    /\ hsv_self = <<0, 0, 0>>
    /\ hsv_other = <<0, 0, 0>>
    /\ hsv_sum = None
    /\ hsv_difference = None
    /\ scene \in Scenes
    /\ frames_seen = <<>>

\* One iteration of Tracker.start_tracker on the next frame of the scene, read
\* when the clock showed its number.
TrackScene ==
    /\ Len(frames_seen) < MaxRun
    /\ \E k \in {Len(frames_seen) + 1} :
       \E frame \in {Frame(TRUE, SceneImage(scene, k), k, None, k)} :
          /\ TrackControllersInFrame(frame)
          /\ DrumSetPlay(position', velocity')
          /\ frames_seen' = Append(frames_seen, frame)
    /\ UNCHANGED <<pcMain, hsv_self, hsv_other, hsv_sum, hsv_difference, scene>>
    /\ UNCHANGED <<cfgVars, pipeVars>>

NextHistory == TrackScene

SpecHistory == InitHistory /\ [][NextHistory]_vars

\* The sample of controller c that each frame tracked so far gives, in order.
SamplesOf(c) ==
    [i \in 1..Len(frames_seen) |->
        [position |-> frames_seen[i].image[c], timestamp |-> frames_seen[i].timestamp]]

WindowSize == IF Len(frames_seen) < Controller_DEQUE_MAX_LENGTH
              THEN Len(frames_seen) ELSE Controller_DEQUE_MAX_LENGTH

\* C19: the position history of a controller is a sliding window of capacity
\* 50: after k frames it holds the min(k, 50) most recent samples, those with
\* no position included, in order, one sample per frame with that frame's
\* timestamp.
C19_SlidingWindow ==
    \A c \in controllers :
        /\ Len(positions_in_time[c]) = WindowSize
        /\ positions_in_time[c] = LastN(SamplesOf(c), WindowSize)

\* Witness of C19: two frames more than the capacity were tracked; the oldest
\* sample held is the third frame's, and it is one with no position.
C19_Witness ==
    /\ Len(frames_seen) = Controller_DEQUE_MAX_LENGTH + 2
    /\ positions_in_time["left"][1].timestamp = 3
    /\ positions_in_time["left"][1].position = None
    /\ Len(positions_in_time["left"]) = Controller_DEQUE_MAX_LENGTH

---------------------------------------------------------------------------
\* Claims about a failed capture, checked under Spec.

\* One step as far as a failed capture goes: a read whose capture was not
\* grabbed ends the Acquisition Stage's loop in an error, and after that the
\* stage reads nothing and pushes nothing.
FailedCaptureStep ==
    /\ (pcIn = "read" /\ pcIn' # pcIn /\ ~frame_read'.grabbed) => (pcIn' = "error")
    /\ (pcIn = "error") =>
           /\ pcIn' = "error"
           /\ frame_read' = frame_read
           /\ frame_count' = frame_count
           /\ pushed["A"]' = pushed["A"]

\* No frame of a failed capture is in a queue or with a later stage, and the
\* stage that ended in an error did so on a capture that was not grabbed,
\* whose frame number was never pushed.
NoUngrabbedFrame ==
    /\ \A i \in 1..Len(frames_to_track) : frames_to_track[i].grabbed
    /\ \A i \in 1..Len(frames_tracked) : frames_tracked[i].grabbed
    /\ (pcIn = "append") => frame_read.grabbed
    /\ (pcIn = "error") =>
           /\ ~frame_read.grabbed
           /\ frame_read.frame_count = frame_count
           /\ frame_count \notin Range(pushed["A"])
    /\ (~frame_read.grabbed /\ frame_count > 0 /\ pcIn # "read") => (pcIn = "error")

\* C20: when the capture reports that no frame was grabbed, the Acquisition
\* Stage stops: it pushes no frame for that capture and none after it, it does
\* not try the capture again, and it ends in an error state.
C20_FailedCaptureStops == [][FailedCaptureStep]_vars /\ []NoUngrabbedFrame

\* Witness of C20: two frames went through to queue B, the third capture was
\* not grabbed, and the Tracking Stage has since gone round its loop.
C20_Witness ==
    /\ pcIn = "error"
    /\ frame_count = 3
    /\ pushed["A"] = <<1, 2>>
    /\ pushed["B"] = <<1, 2>>
    /\ pcTr = "check"

---------------------------------------------------------------------------
\* Claims about the pops, checked under Spec.

\* C21: neither the Tracking Stage's popleft on queue A nor the Rendering
\* Stage's popleft on queue B is ever made on an empty queue: a queue found
\* non-empty by the check is still non-empty at the pop, also when a push
\* evicted its oldest frame in between, and no popleft raises IndexError.
C21_NoPopFromEmpty ==
    /\ (pcTr = "pop") => (frames_to_track # <<>>)
    /\ (pcOut = "pop") => (frames_tracked # <<>>)
    /\ pcTr # "error"
    /\ (pcOut = "error") => (popped["B"] # <<>> /\ frame_out.frame_count > 0)

\* Witness of C21: the Tracking Stage is about to pop queue A, whose head is no
\* longer the frame its check saw: a push has evicted that one since.
C21_Witness ==
    /\ pcTr = "pop"
    /\ head_checked # 0
    /\ frames_to_track # <<>>
    /\ Head(frames_to_track).frame_count # head_checked
    /\ head_checked \in evicted["A"]

---------------------------------------------------------------------------
\* Claims about rendering, checked under Spec.

\* C25: when the Rendering Stage annotates a frame it passes a controller's
\* position to the drawing primitive only if that position is not None, and
\* rendering while a controller has no position does not end the Rendering
\* Stage in an error.
C25_RenderingToleratesUndetected ==
    /\ \A i \in 1..Len(circles) : circles[i] # None
    /\ pcOut # "error"

---------------------------------------------------------------------------
\* Claims about the progress of the frames through the pipeline, checked
\* under Spec.

\* A stage that is running: its flag is up and no exception has ended its loop.
InputRunning == stream_enabled /\ ~InputEnded
TrackerRunning == tracker_enabled /\ ~TrackerEnded
OutputRunning == output_enabled /\ ~OutputEnded

\* The steps a running stage takes from a place in its loop to its popleft
\* when its input queue holds a frame.
TrDistance(pc) ==
    IF pc = "pop" THEN 0 ELSE IF pc = "check" THEN 1 ELSE IF pc = "loop" THEN 2
    ELSE IF pc = "play" THEN 3 ELSE IF pc = "append" THEN 4 ELSE 5
OutDistance(pc) ==
    IF pc = "pop" THEN 0 ELSE IF pc = "check" THEN 1 ELSE IF pc = "loop" THEN 2
    ELSE 3

\* The frame numbers of a queue and of a log.
CountsIn(q) == {q[i].frame_count : i \in 1..Len(q)}
Logged(log) == {log[i] : i \in 1..Len(log)}

\* In one step, a frame of the queue stays where it is or moves nearer the
\* head, or it is the head and leaves: popped, or evicted by a push.
MovesToHead(q, queue, queueNext) ==
    \A i \in 1..Len(queue) :
        \/ \E j \in 1..i : /\ j <= Len(queueNext)
                           /\ queueNext[j] = queue[i]
        \/ /\ i = 1
           /\ \/ popped'[q] = Append(popped[q], queue[1].frame_count)
              \/ /\ evicted'[q] = evicted[q] \cup {queue[1].frame_count}
                 /\ Len(pushed'[q]) = Len(pushed[q]) + 1

\* One step of the pipeline, as far as the progress of the frames goes.
ProgressStep ==
    \* the Tracking Stage, running on a queue A that holds a frame, nears its pop
    /\ (TrackerRunning /\ frames_to_track # <<>> /\ pcTr # "pop" /\ pcTr' # pcTr)
          => TrDistance(pcTr') < TrDistance(pcTr)
    \* its pop takes the head of queue A, and every other frame moves up
    /\ (pcTr = "pop" /\ pcTr' # pcTr)
          => /\ pcTr' = "track"
             /\ frame_to_track' = Head(frames_to_track)
             /\ frames_to_track' = Tail(frames_to_track)
             /\ popped'["A"] = Append(popped["A"], Head(frames_to_track).frame_count)
    \* the popped frame is tracked and pushed to queue B, stopped or not
    /\ (pcTr = "track" /\ pcTr' # pcTr) => (pcTr' = "append" /\ frame_to_track' = frame_to_track)
    /\ (pcTr = "append" /\ pcTr' # pcTr)
          => /\ pushed'["B"] = Append(pushed["B"], frame_to_track.frame_count)
             /\ frames_tracked'[Len(frames_tracked')] = frame_to_track
    \* the Rendering Stage, running on a queue B that holds a frame, nears its pop
    /\ (OutputRunning /\ frames_tracked # <<>> /\ pcOut # "pop" /\ pcOut' # pcOut)
          => \/ OutDistance(pcOut') < OutDistance(pcOut)
             \/ pcOut = "render" /\ pcOut' = "error"
    /\ (pcOut = "pop" /\ pcOut' # pcOut)
          => /\ pcOut' = "render"
             /\ frame_out' = Head(frames_tracked)
             /\ frames_tracked' = Tail(frames_tracked)
             /\ popped'["B"] = Append(popped["B"], Head(frames_tracked).frame_count)
    \* the popped frame is rendered, unless cv2.circle raises and ends the stage
    /\ (pcOut = "render" /\ pcOut' # pcOut)
          => \/ pcOut' = "loop" /\ circles' = RenderCenters
             \/ pcOut' = "error"
    \* a queue that holds a frame is emptied by no one but its consumer
    /\ (frames_to_track # <<>> /\ frames_to_track' = <<>>) => pcTr = "pop"
    /\ (frames_tracked # <<>> /\ frames_tracked' = <<>>) => pcOut = "pop"
    \* no frame moves away from the head of its queue
    /\ MovesToHead("A", frames_to_track, frames_to_track')
    /\ MovesToHead("B", frames_tracked, frames_tracked')

\* Where every frame is: a frame pushed to a queue is in the queue, evicted or
\* popped, and only one of these; a frame popped from queue A is with the
\* Tracking Stage or was pushed to queue B; the frame last popped from queue B
\* is with the Rendering Stage.  A running stage can always take a step (the
\* Input Stage of the model stops reading at MaxFrames frames).
ProgressState ==
    /\ \A q \in {"A", "B"} :
          LET queue == IF q = "A" THEN frames_to_track ELSE frames_tracked
          IN  /\ Logged(pushed[q]) = CountsIn(queue) \cup evicted[q] \cup Logged(popped[q])
              /\ CountsIn(queue) \cap evicted[q] = {}
              /\ CountsIn(queue) \cap Logged(popped[q]) = {}
              /\ evicted[q] \cap Logged(popped[q]) = {}
    /\ \A i \in 1..Len(popped["A"]) :
          \/ popped["A"][i] \in Logged(pushed["B"])
          \/ /\ i = Len(popped["A"])
             /\ pcTr \in {"track", "append"}
             /\ frame_to_track.frame_count = popped["A"][i]
    /\ Logged(pushed["B"]) \subseteq Logged(popped["A"])
    /\ (popped["B"] # <<>>)
          => /\ frame_out.frame_count = popped["B"][Len(popped["B"])]
             /\ pcOut \in {"render", "loop", "check", "pop", "done", "error"}
    /\ (InputRunning /\ (pcIn # "loop" \/ frame_count < MaxFrames)) => ENABLED InputStep
    /\ TrackerRunning => ENABLED TrackerStep
    /\ OutputRunning => ENABLED OutputStep

\* C26: while the stages run, a frame in queue A is popped by the Tracking
\* Stage and pushed to queue B, or evicted by a push, and a frame in queue B is
\* popped and rendered, or evicted: a running stage can always take a step,
\* each step it takes on a queue that holds a frame brings it nearer its pop,
\* the pop takes the head, no frame moves away from the head, and a popped
\* frame goes on to the push or to the rendering.
C26_PipelineProgress == [][ProgressStep]_vars /\ []ProgressState

\* Witness of C26: with all three stages running, a frame was evicted from
\* queue A, one from queue B, and one went through both queues and was rendered.
C26_Witness ==
    /\ InputRunning /\ TrackerRunning /\ OutputRunning
    /\ evicted["A"] # {} /\ evicted["B"] # {}
    /\ popped["B"] # <<>>
    /\ popped["B"][Len(popped["B"])] \in Logged(popped["A"])
    /\ pcOut = "loop"
    /\ circles = RenderCenters
    /\ frames_to_track = <<>> /\ frames_tracked = <<>>

====
